---- MODULE Spec2Model ----
(***************************************************************************)
(* Ownership model of the realsense-rust frame and sensor wrappers.        *)
(*                                                                         *)
(* The native SDK is a handle table: every frame handle has a native       *)
(* extension kind, an embedded-frame count and a release counter; every    *)
(* sensor handle and stream-profile list has a delete counter.  Each       *)
(* action is one method of src/src/frame.rs, src/src/frame/composite.rs or *)
(* src/src/sensor.rs, with the native calls it makes recorded in `calls`   *)
(* and its return value in `ret` (`vec` when it returns a Vec).            *)
(*                                                                         *)
(* Specifications: Spec (Frame<Kind>, composite get and iteration),        *)
(* SpecData (data views, video and motion queries), SpecFrameSensor        *)
(* (Frame::sensor), SpecComposite (CompositeFrame), SpecSensor (Sensor     *)
(* construction, drop, set_option), SpecValues (get_option,                *)
(* get_option_range, info), SpecProfiles (stream_profiles).                *)
(***************************************************************************)
EXTENDS Integers, Sequences, FiniteSets, TLC

\* ------------------------------------------------------------------ bounds
MaxHandles == 4
MaxFrames == 5
MaxCount == 3
MaxIters == 1
MaxSensors == 2
MaxSensorHandles == 2
MaxOptions == 2
MaxErrObjs == 1
MaxProfiles == 2
MaxDataSize == 12
MaxDim == 2
MaxViews == 1
MaxInfos == 1
MaxEmbedded == 2

VARIABLES
    nkind,      \* native frame table: handle -> extension kind ("none" = not allocated)
    embedded,   \* native frame table: handle -> embedded frame count
    released,   \* native frame table: pointer -> number of rs2_release_frame calls
    frames,     \* Frame<Kind> wrappers ever constructed: [ptr, kind, st]
    iters,      \* CompositeFrameIntoIter values: [len, index, ptr, fused, st]
    itlog,      \* per iterator: items yielded and extraction indices attempted
    sorigin,    \* native sensor table: handle -> "none" | "external" | "created"
    sdel,       \* native sensor table: handle -> number of rs2_delete_sensor calls
    pdel,       \* native profile lists: list -> number of rs2_delete_stream_profiles_list calls
    sensors,    \* Sensor wrappers: [sensor_ptr, stream_profiles_ptr, should_drop, st]
    views,      \* borrowed views of frame data that are still in scope: [owner, ptr, what]
    vec,        \* the Vec the last operation returned (empty when it returned none)
    errobjs,    \* native error objects allocated and not freed (counted up to MaxErrObjs)
    calls,      \* native calls made by the last operation, in order
    ret,        \* what the last operation returned
    panicked    \* an unwrap() failed: the thread is unwinding

vars == <<nkind, embedded, released, frames, iters, itlog,
          sorigin, sdel, pdel, sensors, views, vec, errobjs, calls, ret, panicked>>

frameVars == <<nkind, embedded, released, frames, iters, itlog>>
sensorVars == <<sorigin, sdel, pdel, sensors>>
restVars == <<views, vec, errobjs>>

\* ------------------------------------------------------------ frame kinds
\* marker::Any and the NonAnyFrameKind markers the model instantiates
NonAnyKinds == {"Composite", "Video"}
AnyKind == "Any"
\* native kinds of the frames a composite embeds
SubKinds == NonAnyKinds \ {"Composite"}

Handles == 1..MaxHandles
\* the content of a pointer field after MaybeUninit::uninit().assume_init() was
\* stored in it: indeterminate.  No operation reads such a field (the wrapper
\* holding it is forgotten), so the model never has to resolve it to a value.
Uninit == 0
Ptrs == Handles \cup {Uninit}

Allocated == {h \in Handles : nkind[h] # "none"}
HasFreeHandle == Cardinality(Allocated) < MaxHandles
FreshHandle == Cardinality(Allocated) + 1

\* a native call and its outcome: res is "ok", "err" (error slot set) or
\* "null" (no error, null pointer returned); val is the raw return value
Call(fn, h, arg, res, val) ==
    [fn |-> fn, h |-> h, arg |-> arg, res |-> res, val |-> val]

\* what an operation returned: val is the variant, out the wrapper, iterator or
\* number it carries, arg the operation's argument (for a drop: 1 when the
\* operation before it was a query on the same wrapper; for resolution: the
\* width of the Resolution, out being its height)
Ret(op, self, arg, val, out) ==
    [op |-> op, self |-> self, arg |-> arg, val |-> val, out |-> out]

KindArg(k) == IF k = "Composite" THEN 1 ELSE IF k = "Video" THEN 2 ELSE 3

\* -------------------------------------------------------------- Frame<Kind>
\* Frame::from_ptr
from_ptr(ptr, kind) == [ptr |-> ptr, kind |-> kind, st |-> "live"]

rs2_release_frame(rel, ptr) == [rel EXCEPT ![ptr] = @ + 1]

\* a faulty drop that forgets the release
drop_frame_leak(rel, ptr) == rel

\* Drop for Frame<Kind>
drop_frame(rel, ptr) == rs2_release_frame(rel, ptr)

\* a faulty error return that forgets self before the check
error_return_forgets_self(rel, ptr) == rel

\* `?` on the error of a query returns while self, taken by value, is still
\* owned by the function: self is dropped
error_return(rel, ptr) == drop_frame(rel, ptr)

\* a faulty take that leaves the source wrapper as it was
take_no_forget(fs, w) == fs

\* Frame::take: the pointer is read out, the field is overwritten with an
\* uninitialised value and the wrapper is forgotten (its destructor never runs)
take(fs, w) == [fs EXCEPT ![w] = [@ EXCEPT !.ptr = Uninit, !.st = "moved"]]

\* a faulty re-tag that keeps the Any tag
retag_keeps_any(ptr, X) == [ptr |-> ptr, kind |-> AnyKind, st |-> "live"]

\* try_extend_to: Frame { ptr, _phantom: PhantomData } of the target kind
retag(ptr, X) == [ptr |-> ptr, kind |-> X, st |-> "live"]

\* a faulty test with the sense of the answer inverted
is_extendable_negated(val) == val = 0

\* try_extend_to: let is_extendable = val != 0
is_extendable(val) == val # 0

Live(w) == w \in DOMAIN frames /\ frames[w].st = "live"

\* a faulty signature whose returned slice is not tied to the frame
view_owner_unbound(w) == 0

\* Frame::data(&self) -> RsResult<&[u8]>: the lifetime of the returned slice
\* is the lifetime of the borrow of self
view_owner(w) == w

\* a wrapper that is borrowed cannot be moved or dropped
Borrowed(w) == \E v \in views : v.owner = w

\* The handle the SDK delivered first, wrapped by Frame::from_ptr
RootHandle == 1

\* The frame world starts when the SDK has delivered one frame handle, of some
\* native kind and embedded count, and Frame::from_ptr has wrapped it, tagged
\* Any or with the kind the native object has.
InitFrames ==
    \E nk \in NonAnyKinds, n \in 0..MaxCount :
        /\ n = 0 \/ nk = "Composite"
        /\ nkind = [h \in Handles |-> IF h = RootHandle THEN nk ELSE "none"]
        /\ embedded = [h \in Handles |-> IF h = RootHandle THEN n ELSE 0]
        /\ released = [p \in Ptrs |-> 0]
        /\ \E k \in {AnyKind, nk} : frames = <<from_ptr(RootHandle, k)>>
        /\ iters = <<>>
        /\ itlog = <<>>

NoFrames ==
    /\ nkind = [h \in Handles |-> "none"]
    /\ embedded = [h \in Handles |-> 0]
    /\ released = [p \in Ptrs |-> 0]
    /\ frames = <<>>
    /\ iters = <<>>
    /\ itlog = <<>>

NoSensors ==
    /\ sorigin = [h \in 1..MaxSensorHandles |-> "none"]
    /\ sdel = [h \in 1..MaxSensorHandles |-> 0]
    /\ pdel = <<>>
    /\ sensors = <<>>

NoRest ==
    /\ views = {}
    /\ vec = <<>>
    /\ errobjs = 0

Init ==
    /\ InitFrames
    /\ NoSensors
    /\ NoRest
    /\ calls = <<>>
    /\ ret = Ret("init", 0, 0, "", 0)
    /\ panicked = FALSE

QueryFns == {"data_size"}

\* Frame::number, Frame::data_size (and the other delegating queries of the
\* same shape): one native call, checker.check()?, Ok(val)
Query(w, op, err) ==
    /\ ~panicked
    /\ Live(w)
    /\ calls' = <<Call(op, frames[w].ptr, 0, IF err THEN "err" ELSE "ok", 0)>>
    /\ ret' = Ret(op, w, 0, IF err THEN "Err" ELSE "Ok", 0)
    /\ UNCHANGED <<frameVars, sensorVars, restVars, panicked>>

\* Drop for Frame<Kind>, run when a live wrapper goes out of scope
DropFrame(w) ==
    /\ Live(w)
    /\ ~Borrowed(w)
    /\ released' = drop_frame(released, frames[w].ptr)
    /\ frames' = [frames EXCEPT ![w].st = "dropped"]
    /\ calls' = <<Call("rs2_release_frame", frames[w].ptr, 0, "ok", 0)>>
    /\ ret' = Ret("drop", w, IF ret.op \in QueryFns /\ ret.self = w THEN 1 ELSE 0, "", 0)
    /\ UNCHANGED <<nkind, embedded, iters, itlog, sensorVars, restVars, panicked>>

\* Frame<Any>::try_extend_to
TryExtendTo(w, X, err) ==
    LET ptr == frames[w].ptr
        val == IF nkind[ptr] = X THEN 1 ELSE 0
        query == Call("rs2_is_frame_extendable_to", ptr, KindArg(X),
                      IF err THEN "err" ELSE "ok", val)
    IN
    /\ ~panicked
    /\ Live(w)
    /\ ~Borrowed(w)
    /\ frames[w].kind = AnyKind
    /\ IF err
       THEN \* checker.check()? returns the error; self goes out of scope
            /\ released' = error_return(released, ptr)
            /\ frames' = [frames EXCEPT ![w].st = "dropped"]
            /\ calls' = <<query, Call("rs2_release_frame", ptr, 0, "ok", 0)>>
            /\ ret' = Ret("try_extend_to", w, KindArg(X), "Err", 0)
       ELSE IF is_extendable(val)
       THEN /\ Len(frames) < MaxFrames
            /\ frames' = Append(take(frames, w), retag(ptr, X))
            /\ calls' = <<query>>
            /\ ret' = Ret("try_extend_to", w, KindArg(X), "OkOk", Len(frames) + 1)
            /\ UNCHANGED released
       ELSE /\ calls' = <<query>>
            /\ ret' = Ret("try_extend_to", w, KindArg(X), "OkErr", w)
            /\ UNCHANGED <<released, frames>>
    /\ UNCHANGED <<nkind, embedded, iters, itlog, sensorVars, restVars, panicked>>

\* Frame<Composite>::len
FrameLen(w, err) ==
    LET ptr == frames[w].ptr IN
    /\ ~panicked
    /\ Live(w)
    /\ frames[w].kind = "Composite"
    /\ calls' = <<Call("rs2_embedded_frames_count", ptr, 0,
                       IF err THEN "err" ELSE "ok", embedded[ptr])>>
    /\ ret' = Ret("len", w, 0, IF err THEN "Err" ELSE "Ok",
                  IF err THEN 0 ELSE embedded[ptr])
    /\ UNCHANGED <<frameVars, sensorVars, restVars, panicked>>

ExtractOutcomes == {"ok", "err", "null"}

\* the native side of a successful rs2_extract_frame: a new handle (one
\* reference for the caller) of some native kind
NewSubFrame(nk) ==
    /\ HasFreeHandle
    /\ nkind' = [nkind EXCEPT ![FreshHandle] = nk]
    /\ embedded' = [embedded EXCEPT ![FreshHandle] = 0]

\* a faulty bounds test that lets index = len through
out_of_bounds_off_by_one(index, len) == index > len

\* Frame<Composite>::get: if index >= len { return Ok(None) }
out_of_bounds(index, len) == index >= len

\* a faulty get that wraps the pointer of the composite itself
wrapped_by_get_self(self_ptr, extracted) == self_ptr

\* get: Frame::from_ptr(NonNull::new(ptr).unwrap()), ptr being what
\* rs2_extract_frame returned
wrapped_by_get(self_ptr, extracted) == extracted

\* Frame<Composite>::get
Get(w, index, lenErr, ex) ==
    LET ptr == frames[w].ptr
        count == Call("rs2_embedded_frames_count", ptr, 0,
                      IF lenErr THEN "err" ELSE "ok", embedded[ptr])
        extract == Call("rs2_extract_frame", ptr, index, ex,
                        IF ex = "ok" THEN FreshHandle ELSE 0)
    IN
    /\ ~panicked
    /\ Live(w)
    /\ frames[w].kind = "Composite"
    /\ IF lenErr
       THEN /\ calls' = <<count>>
            /\ ret' = Ret("get", w, index, "Err", 0)
            /\ UNCHANGED <<frameVars, panicked>>
       ELSE IF out_of_bounds(index, embedded[ptr])
       THEN /\ calls' = <<count>>
            /\ ret' = Ret("get", w, index, "None", 0)
            /\ UNCHANGED <<frameVars, panicked>>
       ELSE /\ calls' = <<count, extract>>
            /\ CASE ex = "err" ->
                     /\ ret' = Ret("get", w, index, "Err", 0)
                     /\ UNCHANGED <<frameVars, panicked>>
                 [] ex = "null" -> \* NonNull::new(ptr).unwrap() panics
                     /\ ret' = Ret("get", w, index, "panic", 0)
                     /\ panicked' = TRUE
                     /\ UNCHANGED frameVars
                 [] ex = "ok" ->
                     /\ Len(frames) < MaxFrames
                     /\ \E nk \in SubKinds : NewSubFrame(nk)
                     /\ frames' = Append(frames, from_ptr(wrapped_by_get(ptr, FreshHandle),
                                                          AnyKind))
                     /\ ret' = Ret("get", w, index, "Some", Len(frames) + 1)
                     /\ UNCHANGED <<released, iters, itlog, panicked>>
    /\ UNCHANGED <<sensorVars, restVars>>

\* a faulty initial flag that ignores the empty composite
fused_init_never(len) == FALSE

\* try_into_iter: fused: len == 0
fused_init(len) == len = 0

\* Frame<Composite>::try_into_iter; viaIntoIter is IntoIterator::into_iter,
\* which unwraps the result
try_into_iter(w, err, viaIntoIter) ==
    LET ptr == frames[w].ptr
        len == embedded[ptr]
        count == Call("rs2_embedded_frames_count", ptr, 0,
                      IF err THEN "err" ELSE "ok", len)
        op == IF viaIntoIter THEN "into_iter" ELSE "try_into_iter"
    IN
    /\ ~panicked
    /\ Live(w)
    /\ ~Borrowed(w)
    /\ frames[w].kind = "Composite"
    /\ IF err
       THEN \* self.len()? returns the error; self goes out of scope
            /\ released' = error_return(released, ptr)
            /\ frames' = [frames EXCEPT ![w].st = "dropped"]
            /\ calls' = <<count, Call("rs2_release_frame", ptr, 0, "ok", 0)>>
            /\ ret' = Ret(op, w, 0, IF viaIntoIter THEN "panic" ELSE "Err", 0)
            /\ panicked' = viaIntoIter
            /\ UNCHANGED <<iters, itlog>>
       ELSE /\ Len(iters) < MaxIters
            /\ frames' = take(frames, w)
            /\ iters' = Append(iters, [len |-> len, index |-> 0, ptr |-> ptr,
                                        fused |-> fused_init(len), st |-> "live"])
            /\ itlog' = Append(itlog, [items |-> <<>>, tries |-> <<>>])
            /\ calls' = <<count>>
            /\ ret' = Ret(op, w, 0, "Ok", Len(iters) + 1)
            /\ UNCHANGED <<released, panicked>>
    /\ UNCHANGED <<nkind, embedded, sensorVars, restVars>>

TryIntoIter(w, err) == try_into_iter(w, err, FALSE)

\* IntoIterator for Frame<Composite>
IntoIter(w, err) == try_into_iter(w, err, TRUE)

\* a faulty end test that allows one extraction too many
fused_after_off_by_one(index, len) == index > len

\* next: if self.index >= self.len { self.fused = true }
fused_after(index, len) == index >= len

\* a faulty error branch that leaves the flag as it was
fused_on_error_forgotten(fused) == fused

\* next: Err(err) => { self.fused = true; ... }
fused_on_error(fused) == TRUE

\* Iterator for CompositeFrameIntoIter: next
IterNext(it, ex) ==
    LET i == iters[it]
        extract == Call("rs2_extract_frame", i.ptr, i.index, ex,
                        IF ex = "ok" THEN FreshHandle ELSE 0)
        tried == [itlog EXCEPT ![it].tries = Append(@, i.index)]
    IN
    /\ ~panicked
    /\ it \in DOMAIN iters
    /\ i.st = "live"
    /\ IF i.fused
       THEN /\ calls' = <<>>
            /\ ret' = Ret("next", it, 0, "None", 0)
            /\ UNCHANGED <<frameVars, panicked>>
       ELSE /\ calls' = <<extract>>
            /\ CASE ex = "err" ->
                     /\ iters' = [iters EXCEPT ![it].fused = fused_on_error(@)]
                     /\ itlog' = [tried EXCEPT ![it].items =
                                      Append(@, [ok |-> FALSE, idx |-> i.index, h |-> 0])]
                     /\ ret' = Ret("next", it, i.index, "SomeErr", 0)
                     /\ UNCHANGED <<nkind, embedded, released, frames, panicked>>
                 [] ex = "null" -> \* index and fused are updated before the unwrap
                     /\ iters' = [iters EXCEPT ![it].index = @ + 1,
                                      ![it].fused = fused_after(i.index + 1, i.len)]
                     /\ itlog' = tried
                     /\ ret' = Ret("next", it, i.index, "panic", 0)
                     /\ panicked' = TRUE
                     /\ UNCHANGED <<nkind, embedded, released, frames>>
                 [] ex = "ok" ->
                     /\ Len(frames) < MaxFrames
                     /\ \E nk \in SubKinds : NewSubFrame(nk)
                     /\ iters' = [iters EXCEPT ![it].index = @ + 1,
                                      ![it].fused = fused_after(i.index + 1, i.len)]
                     /\ frames' = Append(frames, from_ptr(FreshHandle, AnyKind))
                     /\ itlog' = [tried EXCEPT ![it].items =
                                      Append(@, [ok |-> TRUE, idx |-> i.index,
                                                 h |-> FreshHandle])]
                     /\ ret' = Ret("next", it, i.index, "SomeOk", Len(frames) + 1)
                     /\ UNCHANGED <<released, panicked>>
    /\ UNCHANGED <<sensorVars, restVars>>

\* a faulty iterator drop that forgets the release
drop_iter_leak(rel, ptr) == rel

\* Drop for CompositeFrameIntoIter
drop_iter(rel, ptr) == rs2_release_frame(rel, ptr)

DropIter(it) ==
    /\ it \in DOMAIN iters
    /\ iters[it].st = "live"
    /\ released' = drop_iter(released, iters[it].ptr)
    /\ iters' = [iters EXCEPT ![it].st = "dropped"]
    /\ calls' = <<Call("rs2_release_frame", iters[it].ptr, 0, "ok", 0)>>
    /\ ret' = Ret("drop_iter", it, 0, "", 0)
    /\ UNCHANGED <<nkind, embedded, frames, itlog, sensorVars, restVars, panicked>>

\* ------------------------------------------------- frame data and sensor
\* the frame kinds whose data the model reads
DataKinds == {"Video", "Motion"}
DataSizes == 0..MaxDataSize
Dims == 1..MaxDim

\* size in bytes of the three f32 of a MotionData: (U3, U1) of f32
MotionBytes == 12

\* The data world starts when the SDK has delivered one video or motion frame
\* and Frame::from_ptr has wrapped it, tagged Any or with its native kind.
InitData ==
    /\ \E nk \in DataKinds :
        /\ nkind = [h \in Handles |-> IF h = RootHandle THEN nk ELSE "none"]
        /\ \E k \in {AnyKind, nk} : frames = <<from_ptr(RootHandle, k)>>
    /\ embedded = [h \in Handles |-> 0]
    /\ released = [p \in Ptrs |-> 0]
    /\ iters = <<>>
    /\ itlog = <<>>
    /\ NoSensors
    /\ NoRest
    /\ calls = <<>>
    /\ ret = Ret("init", 0, 0, "", 0)
    /\ panicked = FALSE

\* a slice or MotionData borrowed from wrapper w, pointing into the buffer of ptr
View(w, ptr, what) == [owner |-> view_owner(w), ptr |-> ptr, what |-> what]

\* Frame::data: the calls it makes (self.data_size()?, then rs2_get_frame_data
\* and checker.check()?)
data_calls(ptr, r1, size, r2) ==
    IF r1 = "err" THEN <<Call("data_size", ptr, 0, r1, size)>>
    ELSE <<Call("data_size", ptr, 0, r1, size), Call("rs2_get_frame_data", ptr, 0, r2, 0)>>

\* Frame::data: slice::from_raw_parts(ptr, size)
Data(w, r1, size, r2) ==
    LET ptr == frames[w].ptr
        ok == r1 = "ok" /\ r2 = "ok"
    IN
    /\ ~panicked
    /\ Live(w)
    /\ calls' = data_calls(ptr, r1, size, r2)
    /\ ret' = Ret("data", w, 0, IF ok THEN "Ok" ELSE "Err", IF ok THEN size ELSE 0)
    /\ IF ok
       THEN /\ Cardinality(views) < MaxViews
            /\ views' = views \cup {View(w, ptr, "slice")}
       ELSE UNCHANGED views
    /\ UNCHANGED <<frameVars, sensorVars, vec, errobjs, panicked>>

\* Frame<Motion>::get_motion_data: three f32 read from the start of the
\* buffer self.data()? returned, whatever its length
GetMotionData(w, r1, size, r2) ==
    LET ptr == frames[w].ptr
        ok == r1 = "ok" /\ r2 = "ok"
    IN
    /\ ~panicked
    /\ Live(w)
    /\ frames[w].kind = "Motion"
    /\ calls' = data_calls(ptr, r1, size, r2)
    /\ ret' = Ret("get_motion_data", w, 0, IF ok THEN "Ok" ELSE "Err",
                  IF ok THEN MotionBytes ELSE 0)
    /\ IF ok
       THEN /\ Cardinality(views) < MaxViews
            /\ views' = views \cup {View(w, ptr, "MotionData")}
       ELSE UNCHANGED views
    /\ UNCHANGED <<frameVars, sensorVars, vec, errobjs, panicked>>

\* a borrowed slice or MotionData goes out of scope
EndView(v) ==
    /\ v \in views
    /\ views' = views \ {v}
    /\ calls' = <<>>
    /\ ret' = Ret("end_view", v.owner, 0, "", 0)
    /\ UNCHANGED <<frameVars, sensorVars, vec, errobjs, panicked>>

\* Frame<Video>::width
Width(w, res, val) ==
    /\ ~panicked
    /\ Live(w)
    /\ frames[w].kind = "Video"
    /\ calls' = <<Call("rs2_get_frame_width", frames[w].ptr, 0, res, val)>>
    /\ ret' = Ret("width", w, 0, IF res = "err" THEN "Err" ELSE "Ok",
                  IF res = "err" THEN 0 ELSE val)
    /\ UNCHANGED <<frameVars, sensorVars, restVars, panicked>>

\* Frame<Video>::height
Height(w, res, val) ==
    /\ ~panicked
    /\ Live(w)
    /\ frames[w].kind = "Video"
    /\ calls' = <<Call("rs2_get_frame_height", frames[w].ptr, 0, res, val)>>
    /\ ret' = Ret("height", w, 0, IF res = "err" THEN "Err" ELSE "Ok",
                  IF res = "err" THEN 0 ELSE val)
    /\ UNCHANGED <<frameVars, sensorVars, restVars, panicked>>

\* resolution: the native query behind `let width = self.width()?`
resolution_width_query == "rs2_get_frame_width"
\* resolution: the native query behind `let height = self.width()?`
resolution_height_query == "rs2_get_frame_width"

\* Frame<Video>::resolution; wv and hv are the width and the height of the
\* native frame
Resolution(w, r1, r2, wv, hv) ==
    LET ptr == frames[w].ptr
        answer(fn) == IF fn = "rs2_get_frame_width" THEN wv ELSE hv
        first == Call(resolution_width_query, ptr, 0, r1, answer(resolution_width_query))
        second == Call(resolution_height_query, ptr, 0, r2, answer(resolution_height_query))
    IN
    /\ ~panicked
    /\ Live(w)
    /\ frames[w].kind = "Video"
    /\ IF r1 = "err"
       THEN /\ calls' = <<first>>
            /\ ret' = Ret("resolution", w, 0, "Err", 0)
       ELSE IF r2 = "err"
       THEN /\ calls' = <<first, second>>
            /\ ret' = Ret("resolution", w, 0, "Err", 0)
       ELSE /\ calls' = <<first, second>>
            /\ ret' = Ret("resolution", w, first.val, "Ok", second.val)
    /\ UNCHANGED <<frameVars, sensorVars, restVars, panicked>>

Next ==
    \/ \E w \in 1..MaxFrames, op \in QueryFns, err \in BOOLEAN : Query(w, op, err)
    \/ \E w \in 1..MaxFrames, X \in NonAnyKinds, err \in BOOLEAN : TryExtendTo(w, X, err)
    \/ \E w \in 1..MaxFrames, err \in BOOLEAN : FrameLen(w, err)
    \/ \E w \in 1..MaxFrames, index \in 0..MaxCount, lenErr \in BOOLEAN,
          ex \in ExtractOutcomes : Get(w, index, lenErr, ex)
    \/ \E w \in 1..MaxFrames, err \in BOOLEAN : TryIntoIter(w, err)
    \/ \E w \in 1..MaxFrames, err \in BOOLEAN : IntoIter(w, err)
    \/ \E it \in 1..MaxIters, ex \in ExtractOutcomes : IterNext(it, ex)
    \/ \E w \in 1..MaxFrames : DropFrame(w)
    \/ \E it \in 1..MaxIters : DropIter(it)

Spec == Init /\ [][Next]_vars
\* ------------------------------------------------------------------ Sensor
SensorHandles == 1..MaxSensorHandles
Options == 1..MaxOptions

\* The sensor pointer a caller holds without owning it (e.g. one reported by
\* a frame) and hands to Sensor::try_from
ExternalSensor == 1

SensorsAllocated == {h \in SensorHandles : sorigin[h] # "none"}
FreshSensor == Cardinality(SensorsAllocated) + 1

\* The sensor world starts with one native sensor that somebody else owns.
InitSensor ==
    /\ NoFrames
    /\ sorigin = [h \in SensorHandles |-> IF h = ExternalSensor THEN "external" ELSE "none"]
    /\ sdel = [h \in SensorHandles |-> 0]
    /\ pdel = <<>>
    /\ sensors = <<>>
    /\ NoRest
    /\ calls = <<>>
    /\ ret = Ret("init", 0, 0, "", 0)
    /\ panicked = FALSE

\* struct Sensor { sensor_ptr, stream_profiles_ptr, should_drop }
Sensor(sensor_ptr, stream_profiles_ptr, should_drop) ==
    [sensor_ptr |-> sensor_ptr, stream_profiles_ptr |-> stream_profiles_ptr,
     should_drop |-> should_drop, st |-> "live"]

LiveSensor(s) == s \in DOMAIN sensors /\ sensors[s].st = "live"

\* a faulty conversion that does not look at the error of the fetch and wraps
\* whatever pointer came back
try_from_unchecked(sensor_ptr, res, op, created, before) ==
    LET lst == IF res = "ok" THEN Len(pdel) + 1 ELSE 0
    IN
    /\ calls' = Append(before, Call("rs2_get_stream_profiles", sensor_ptr, 0, res, lst))
    /\ Len(sensors) < MaxSensors
    /\ pdel' = IF res = "ok" THEN Append(pdel, 0) ELSE pdel
    /\ sensors' = Append(sensors, Sensor(sensor_ptr, lst, created))
    /\ ret' = Ret(op, 0, sensor_ptr, "Ok", Len(sensors) + 1)
    /\ UNCHANGED panicked

\* TryFrom<NonNull<rs2_sensor>> for Sensor; try_create calls it and then
\* sets should_drop = true on the value it returned (created)
try_from(sensor_ptr, res, op, created, before) ==
    LET list == Len(pdel) + 1
        fetch == Call("rs2_get_stream_profiles", sensor_ptr, 0, res,
                      IF res = "ok" THEN list ELSE 0)
    IN
    /\ calls' = Append(before, fetch)
    /\ CASE res = "err" ->
             /\ ret' = Ret(op, 0, sensor_ptr, "CouldNotGenerateStreamProfileList", 0)
             /\ UNCHANGED <<pdel, sensors, panicked>>
         [] res = "null" -> \* NonNull::new(stream_profiles_ptr).unwrap() panics
             /\ ret' = Ret(op, 0, sensor_ptr, "panic", 0)
             /\ panicked' = TRUE
             /\ UNCHANGED <<pdel, sensors>>
         [] res = "ok" ->
             /\ Len(sensors) < MaxSensors
             /\ pdel' = Append(pdel, 0)
             /\ sensors' = Append(sensors, Sensor(sensor_ptr, list, created))
             /\ ret' = Ret(op, 0, sensor_ptr, "Ok", Len(sensors) + 1)
             /\ UNCHANGED panicked

NativeOutcomes == {"ok", "err", "null"}

\* Sensor::try_from on a pointer the caller does not own
TryFrom(h, res) ==
    /\ ~panicked
    /\ sorigin[h] = "external"
    /\ sdel[h] = 0
    /\ try_from(h, res, "try_from", FALSE, <<>>)
    /\ vec' = <<>>
    /\ UNCHANGED <<frameVars, views, errobjs, sorigin, sdel>>

\* Sensor::try_create
TryCreate(cres, pres) ==
    LET create == Call("rs2_create_sensor", 0, 0, cres,
                       IF cres = "ok" THEN FreshSensor ELSE 0)
    IN
    /\ ~panicked
    /\ CASE cres = "err" ->
             /\ calls' = <<create>>
             /\ ret' = Ret("try_create", 0, 0, "CouldNotGetSensorFromList", 0)
             /\ UNCHANGED <<sorigin, pdel, sensors, panicked>>
         [] cres = "null" -> \* NonNull::new(sensor_ptr).unwrap() panics
             /\ calls' = <<create>>
             /\ ret' = Ret("try_create", 0, 0, "panic", 0)
             /\ panicked' = TRUE
             /\ UNCHANGED <<sorigin, pdel, sensors>>
         [] cres = "ok" ->
             /\ FreshSensor \in SensorHandles
             /\ sorigin' = [sorigin EXCEPT ![FreshSensor] = "created"]
             /\ try_from(FreshSensor, pres, "try_create", TRUE, <<create>>)
    /\ vec' = <<>>
    /\ UNCHANGED <<frameVars, views, errobjs, sdel>>

\* a faulty drop that leaves the sensor handle alone
delete_sensor_skipped(sd, sensor_ptr) == sd

rs2_delete_sensor(sd, sensor_ptr) == [sd EXCEPT ![sensor_ptr] = @ + 1]
rs2_delete_stream_profiles_list(pd, list) == [pd EXCEPT ![list] = @ + 1]

\* Drop for Sensor: the native calls it makes, in order; should_drop is not
\* consulted
drop_sensor_calls(x) ==
    <<Call("rs2_delete_stream_profiles_list", x.stream_profiles_ptr, 0, "ok", 0),
      Call("rs2_delete_sensor", x.sensor_ptr, 0, "ok", 0)>>

\* Drop for Sensor
DropSensor(s) ==
    /\ LiveSensor(s)
    /\ calls' = drop_sensor_calls(sensors[s])
    /\ pdel' = rs2_delete_stream_profiles_list(pdel, sensors[s].stream_profiles_ptr)
    /\ sdel' = rs2_delete_sensor(sdel, sensors[s].sensor_ptr)
    /\ sensors' = [sensors EXCEPT ![s].st = "dropped"]
    /\ ret' = Ret("drop_sensor", s, 0, "", 0)
    /\ vec' = <<>>
    /\ UNCHANGED <<frameVars, views, errobjs, sorigin, panicked>>

\* A native call that reports an error allocates an rs2_error and stores it in
\* the caller's slot (let mut err: *mut rs2_error); the object stays allocated
\* until it is passed to rs2_free_error.  The operations below only test the
\* slot (err.as_ref().is_none()) and let it go out of scope.
error_slot(n, res) == IF res = "err" /\ n < MaxErrObjs THEN n + 1 ELSE n

\* a faulty support check that trusts the raw answer when the error is set
supports_option_ignores_error(res, val) == val # 0

\* Sensor::supports_option: if err.as_ref().is_none() { val != 0 } else { false }
supports_option(res, val) == IF res = "ok" THEN val # 0 ELSE FALSE

\* a faulty probe that takes an error for read-only
is_option_read_only_on_error(res, val) == IF res = "ok" THEN val # 0 ELSE TRUE

\* a faulty probe with the sense of the answer inverted
is_option_read_only_negated(res, val) == IF res = "ok" THEN val = 0 ELSE FALSE

\* Sensor::is_option_read_only: if err.as_ref().is_none() { val != 0 } else { false }
is_option_read_only(res, val) == IF res = "ok" THEN val # 0 ELSE FALSE

ProbeOutcomes == {"ok", "err"}
ProbeValues == {0, 1}

\* Sensor::supports_option
SupportsOption(s, o, res, val) ==
    /\ ~panicked
    /\ LiveSensor(s)
    /\ calls' = <<Call("rs2_supports_option", sensors[s].sensor_ptr, o, res, val)>>
    /\ ret' = Ret("supports_option", s, o,
                  IF supports_option(res, val) THEN "true" ELSE "false", 0)
    /\ errobjs' = error_slot(errobjs, res)
    /\ vec' = <<>>
    /\ UNCHANGED <<frameVars, views, sensorVars, panicked>>

\* Sensor::is_option_read_only
IsOptionReadOnly(s, o, res, val) ==
    /\ ~panicked
    /\ LiveSensor(s)
    /\ calls' = <<Call("rs2_is_option_read_only", sensors[s].sensor_ptr, o, res, val)>>
    /\ ret' = Ret("is_option_read_only", s, o,
                  IF is_option_read_only(res, val) THEN "true" ELSE "false", 0)
    /\ errobjs' = error_slot(errobjs, res)
    /\ vec' = <<>>
    /\ UNCHANGED <<frameVars, views, sensorVars, panicked>>

\* Sensor::set_option
SetOption(s, o, r1, v1, r2, v2, r3) ==
    LET ptr == sensors[s].sensor_ptr
        probe == Call("rs2_supports_option", ptr, o, r1, v1)
        readonly == Call("rs2_is_option_read_only", ptr, o, r2, v2)
        write == Call("rs2_set_option", ptr, o, r3, 0)
    IN
    /\ ~panicked
    /\ LiveSensor(s)
    /\ IF ~supports_option(r1, v1)
       THEN /\ calls' = <<probe>>
            /\ ret' = Ret("set_option", s, o, "OptionNotSupported", 0)
            /\ errobjs' = error_slot(errobjs, r1)
       ELSE IF is_option_read_only(r2, v2)
       THEN /\ calls' = <<probe, readonly>>
            /\ ret' = Ret("set_option", s, o, "OptionIsReadOnly", 0)
            /\ UNCHANGED errobjs
       ELSE \* check_rs2_error! takes care of the error of the write
            /\ calls' = <<probe, readonly, write>>
            /\ ret' = Ret("set_option", s, o,
                          IF r3 = "err" THEN "CouldNotSetOption" ELSE "Ok", 0)
            /\ errobjs' = error_slot(errobjs, r2)
    /\ vec' = <<>>
    /\ UNCHANGED <<frameVars, views, sensorVars, panicked>>

\* --- value queries behind a support check
CameraInfos == 1..MaxInfos

\* Sensor::supports_info: err.as_ref().is_none() && supports_info != 0
supports_info(res, val) == res = "ok" /\ val # 0

\* get_option, get_option_range, info: if the support check fails return
\* None; otherwise one value query, Some(value) when its error slot is empty
\* and None when it is set
value_query(s, op, arg, probe, supported, valueFn, r2, v2) ==
    LET query == Call(valueFn, sensors[s].sensor_ptr, arg, r2, v2)
    IN
    /\ ~panicked
    /\ LiveSensor(s)
    /\ IF ~supported
       THEN /\ calls' = <<probe>>
            /\ ret' = Ret(op, s, arg, "None", 0)
            /\ errobjs' = error_slot(errobjs, probe.res)
       ELSE /\ calls' = <<probe, query>>
            /\ ret' = Ret(op, s, arg, IF r2 = "ok" THEN "Some" ELSE "None",
                          IF r2 = "ok" THEN v2 ELSE 0)
            /\ errobjs' = error_slot(errobjs, r2)
    /\ vec' = <<>>
    /\ UNCHANGED <<frameVars, views, sensorVars, panicked>>

\* Sensor::get_option
GetOption(s, o, r1, v1, r2, v2) ==
    value_query(s, "get_option", o,
                Call("rs2_supports_option", sensors[s].sensor_ptr, o, r1, v1),
                supports_option(r1, v1), "rs2_get_option", r2, v2)

\* Sensor::get_option_range; v2 stands for the four numbers the query writes
GetOptionRange(s, o, r1, v1, r2, v2) ==
    value_query(s, "get_option_range", o,
                Call("rs2_supports_option", sensors[s].sensor_ptr, o, r1, v1),
                supports_option(r1, v1), "rs2_get_option_range", r2, v2)

\* Sensor::supports_info
SupportsInfo(s, i, res, val) ==
    /\ ~panicked
    /\ LiveSensor(s)
    /\ calls' = <<Call("rs2_supports_sensor_info", sensors[s].sensor_ptr, i, res, val)>>
    /\ ret' = Ret("supports_info", s, i,
                  IF supports_info(res, val) THEN "true" ELSE "false", 0)
    /\ errobjs' = error_slot(errobjs, res)
    /\ vec' = <<>>
    /\ UNCHANGED <<frameVars, views, sensorVars, panicked>>

\* Sensor::info
Info(s, i, r1, v1, r2, v2) ==
    value_query(s, "info", i,
                Call("rs2_supports_sensor_info", sensors[s].sensor_ptr, i, r1, v1),
                supports_info(r1, v1), "rs2_get_sensor_info", r2, v2)

\* --- Sensor::stream_profiles
\* what can happen at one element of the list: the fetch reports an error, the
\* fetch returns null without an error, the fetch succeeds and
\* StreamProfile::try_from fails, or both succeed
ProfileOutcomes == {"ok", "fetch_err", "null", "conv_err"}

\* the pointer rs2_get_stream_profile returns for element i of a list
profile_ptr(i) == i + 1

\* a faulty loop that leaves the error slot set after a failed fetch
reset_err_forgotten(slot) == slot

\* stream_profiles: err = std::ptr::null_mut(); before continue
reset_err(slot) == "null"

\* the state of the loop of stream_profiles
LoopState(cs, profiles, slot, errs, panic) ==
    [calls |-> cs, profiles |-> profiles, slot |-> slot, errs |-> errs, panic |-> panic]

\* stream_profiles: for i in 0..len { ... }, one iteration per call; a native
\* call that succeeds leaves the error slot as it found it
RECURSIVE stream_profiles_loop(_, _, _, _, _)
stream_profiles_loop(i, len, lst, f, st) ==
    IF i >= len \/ st.panic THEN st
    ELSE
    LET res == CASE f[i] = "fetch_err" -> "err"
                 [] f[i] = "null" -> "null"
                 [] OTHER -> "ok"
        fetch == Call("rs2_get_stream_profile", lst, i, res,
                      IF res = "ok" THEN profile_ptr(i) ELSE 0)
        slot == IF res = "err" THEN "set" ELSE st.slot
        errs == error_slot(st.errs, res)
        convert == Call("StreamProfile::try_from", profile_ptr(i), i,
                        IF f[i] = "ok" THEN "ok" ELSE "err", 0)
    IN
    IF slot = "set"
    THEN stream_profiles_loop(i + 1, len, lst, f,
             LoopState(Append(st.calls, fetch), st.profiles, reset_err(slot), errs, FALSE))
    ELSE IF res = "null" \* NonNull::new(profile_ptr).unwrap() panics
    THEN LoopState(Append(st.calls, fetch), st.profiles, slot, errs, TRUE)
    ELSE stream_profiles_loop(i + 1, len, lst, f,
             LoopState(st.calls \o <<fetch, convert>>,
                       IF f[i] = "ok" THEN Append(st.profiles, profile_ptr(i))
                       ELSE st.profiles,
                       slot, errs, FALSE))

\* the outcomes at the elements of a list of len profiles; the outcomes the
\* operation never gets to see (after a failed count, after a panic) are not
\* enumerated
ProfileRuns(cres, len) ==
    {f \in [0..(len - 1) -> ProfileOutcomes] :
        /\ cres = "err" => \A i \in DOMAIN f : f[i] = "ok"
        /\ \A i, j \in DOMAIN f : f[i] = "null" /\ i < j => f[j] = "ok"}

\* Sensor::stream_profiles; len is the number rs2_get_stream_profiles_count
\* answers, f the outcome at each element
StreamProfiles(s, cres, len, f) ==
    LET lst == sensors[s].stream_profiles_ptr
        count == Call("rs2_get_stream_profiles_count", lst, 0, cres, len)
        end == stream_profiles_loop(0, len, lst, f,
                   LoopState(<<count>>, <<>>, "null", errobjs, FALSE))
    IN
    /\ ~panicked
    /\ LiveSensor(s)
    /\ IF cres = "err"
       THEN /\ calls' = <<count>>
            /\ vec' = <<>>
            /\ errobjs' = error_slot(errobjs, cres)
            /\ ret' = Ret("stream_profiles", s, 0, "Vec", 0)
            /\ UNCHANGED panicked
       ELSE /\ calls' = end.calls
            /\ vec' = IF end.panic THEN <<>> ELSE end.profiles
            /\ errobjs' = end.errs
            /\ ret' = Ret("stream_profiles", s, 0,
                          IF end.panic THEN "panic" ELSE "Vec",
                          IF end.panic THEN 0 ELSE Len(end.profiles))
            /\ panicked' = end.panic
    /\ UNCHANGED <<frameVars, views, sensorVars>>

NextSensor ==
    \/ \E h \in SensorHandles, res \in NativeOutcomes : TryFrom(h, res)
    \/ \E cres \in NativeOutcomes, pres \in NativeOutcomes : TryCreate(cres, pres)
    \/ \E s \in 1..MaxSensors : DropSensor(s)
    \/ \E s \in 1..MaxSensors, o \in Options, res \in ProbeOutcomes, val \in ProbeValues :
           SupportsOption(s, o, res, val)
    \/ \E s \in 1..MaxSensors, o \in Options, res \in ProbeOutcomes, val \in ProbeValues :
           IsOptionReadOnly(s, o, res, val)
    \/ \E s \in 1..MaxSensors, o \in Options, r1 \in ProbeOutcomes, v1 \in ProbeValues,
          r2 \in ProbeOutcomes, v2 \in ProbeValues, r3 \in ProbeOutcomes :
           SetOption(s, o, r1, v1, r2, v2, r3)

SpecSensor == InitSensor /\ [][NextSensor]_vars

\* The value queries of a Sensor, on wrappers of the external sensor
NextValues ==
    \/ \E res \in NativeOutcomes : TryFrom(ExternalSensor, res)
    \/ \E s \in 1..MaxSensors, o \in Options, res \in ProbeOutcomes, val \in ProbeValues :
           SupportsOption(s, o, res, val)
    \/ \E s \in 1..MaxSensors, o \in Options, r1 \in ProbeOutcomes, v1 \in ProbeValues,
          r2 \in ProbeOutcomes, v2 \in ProbeValues : GetOption(s, o, r1, v1, r2, v2)
    \/ \E s \in 1..MaxSensors, o \in Options, r1 \in ProbeOutcomes, v1 \in ProbeValues,
          r2 \in ProbeOutcomes, v2 \in ProbeValues : GetOptionRange(s, o, r1, v1, r2, v2)
    \/ \E s \in 1..MaxSensors, i \in CameraInfos, res \in ProbeOutcomes, val \in ProbeValues :
           SupportsInfo(s, i, res, val)
    \/ \E s \in 1..MaxSensors, i \in CameraInfos, r1 \in ProbeOutcomes, v1 \in ProbeValues,
          r2 \in ProbeOutcomes, v2 \in ProbeValues : Info(s, i, r1, v1, r2, v2)
    \/ \E s \in 1..MaxSensors : DropSensor(s)

SpecValues == InitSensor /\ [][NextValues]_vars

\* The profile world: wrappers of the external sensor and their profile lists
NextProfiles ==
    \/ \E res \in NativeOutcomes : TryFrom(ExternalSensor, res)
    \/ \E s \in 1..MaxSensors, cres \in ProbeOutcomes, len \in 0..MaxProfiles :
           \E f \in ProfileRuns(cres, len) : StreamProfiles(s, cres, len, f)
    \/ \E s \in 1..MaxSensors : DropSensor(s)

SpecProfiles == InitSensor /\ [][NextProfiles]_vars

\* ------------------------------------------------------- Frame::sensor
\* Sensor::from_ptr, as frame.rs uses it: a wrapper that owns the pointer and
\* holds no profile list
NoList == 0
sensor_from_ptr(ptr) == Sensor(ptr, NoList, TRUE)

\* Frame::sensor: every successful rs2_get_frame_sensor hands out a new
\* rs2_sensor object
FrameSensor(w, res) ==
    LET fetch == Call("rs2_get_frame_sensor", frames[w].ptr, 0, res,
                      IF res = "ok" THEN FreshSensor ELSE 0)
    IN
    /\ ~panicked
    /\ Live(w)
    /\ calls' = <<fetch>>
    /\ CASE res = "err" ->
             /\ ret' = Ret("sensor", w, 0, "Err", 0)
             /\ UNCHANGED <<sorigin, sensors, panicked>>
         [] res = "null" -> \* NonNull::new(ptr).unwrap() panics
             /\ ret' = Ret("sensor", w, 0, "panic", 0)
             /\ panicked' = TRUE
             /\ UNCHANGED <<sorigin, sensors>>
         [] res = "ok" ->
             /\ FreshSensor \in SensorHandles
             /\ Len(sensors) < MaxSensors
             /\ sorigin' = [sorigin EXCEPT ![FreshSensor] = "frame"]
             /\ sensors' = Append(sensors, sensor_from_ptr(FreshSensor))
             /\ ret' = Ret("sensor", w, 0, "Ok", Len(sensors) + 1)
             /\ UNCHANGED panicked
    /\ UNCHANGED <<frameVars, sdel, pdel, restVars>>

\* the drop of a wrapper made by Sensor::from_ptr
DropFrameSensor(s) ==
    /\ LiveSensor(s)
    /\ sensors[s].stream_profiles_ptr = NoList
    /\ calls' = <<Call("rs2_delete_sensor", sensors[s].sensor_ptr, 0, "ok", 0)>>
    /\ sdel' = rs2_delete_sensor(sdel, sensors[s].sensor_ptr)
    /\ sensors' = [sensors EXCEPT ![s].st = "dropped"]
    /\ ret' = Ret("drop_sensor", s, 0, "", 0)
    /\ UNCHANGED <<frameVars, sorigin, pdel, restVars, panicked>>

NextData ==
    \/ \E w \in 1..MaxFrames, op \in QueryFns, err \in BOOLEAN : Query(w, op, err)
    \/ \E w \in 1..MaxFrames, X \in DataKinds, err \in BOOLEAN : TryExtendTo(w, X, err)
    \/ \E w \in 1..MaxFrames, r1 \in ProbeOutcomes, size \in DataSizes, r2 \in ProbeOutcomes :
           Data(w, r1, size, r2)
    \/ \E w \in 1..MaxFrames, r1 \in ProbeOutcomes, size \in DataSizes, r2 \in ProbeOutcomes :
           GetMotionData(w, r1, size, r2)
    \/ \E v \in views : EndView(v)
    \/ \E w \in 1..MaxFrames, res \in ProbeOutcomes, val \in Dims : Width(w, res, val)
    \/ \E w \in 1..MaxFrames, res \in ProbeOutcomes, val \in Dims : Height(w, res, val)
    \/ \E w \in 1..MaxFrames, r1 \in ProbeOutcomes, r2 \in ProbeOutcomes,
          wv \in Dims, hv \in Dims : Resolution(w, r1, r2, wv, hv)
    \/ \E w \in 1..MaxFrames : DropFrame(w)

SpecData == InitData /\ [][NextData]_vars

\* a frame, the sensors it reports and their drops
NextFrameSensor ==
    \/ \E w \in 1..MaxFrames, op \in QueryFns, err \in BOOLEAN : Query(w, op, err)
    \/ \E w \in 1..MaxFrames, X \in DataKinds, err \in BOOLEAN : TryExtendTo(w, X, err)
    \/ \E w \in 1..MaxFrames, res \in NativeOutcomes : FrameSensor(w, res)
    \/ \E w \in 1..MaxFrames : DropFrame(w)
    \/ \E s \in 1..MaxSensors : DropFrameSensor(s)

SpecFrameSensor == InitData /\ [][NextFrameSensor]_vars

\* ------------------------------------------------------ CompositeFrame
\* struct CompositeFrame { ptr } of frame/composite.rs
composite_frame(ptr) == [ptr |-> ptr, kind |-> "CompositeFrame", st |-> "live"]

LiveComposite(c) == Live(c) /\ frames[c].kind = "CompositeFrame"

\* The composite world starts when the pipeline has delivered one composite
\* handle with some number of embedded frames, held by a CompositeFrame.
InitComposite ==
    /\ \E n \in 0..MaxEmbedded :
           embedded = [h \in Handles |-> IF h = RootHandle THEN n ELSE 0]
    /\ nkind = [h \in Handles |-> IF h = RootHandle THEN "Composite" ELSE "none"]
    /\ released = [p \in Ptrs |-> 0]
    /\ frames = <<composite_frame(RootHandle)>>
    /\ iters = <<>>
    /\ itlog = <<>>
    /\ NoSensors
    /\ NoRest
    /\ calls = <<>>
    /\ ret = Ret("init", 0, 0, "", 0)
    /\ panicked = FALSE

\* CompositeFrame::count: if NonNull::new(err).is_some() { 0 } else { count }
count(res, val) == IF res = "err" THEN 0 ELSE val

\* CompositeFrame::count
Count(c, res) ==
    LET ptr == frames[c].ptr IN
    /\ ~panicked
    /\ LiveComposite(c)
    /\ calls' = <<Call("rs2_embedded_frames_count", ptr, 0, res, embedded[ptr])>>
    /\ ret' = Ret("count", c, 0, "usize", count(res, embedded[ptr]))
    /\ errobjs' = error_slot(errobjs, res)
    /\ UNCHANGED <<frameVars, sensorVars, views, vec, panicked>>

\* CompositeFrame::is_empty
IsEmpty(c, res) ==
    LET ptr == frames[c].ptr IN
    /\ ~panicked
    /\ LiveComposite(c)
    /\ calls' = <<Call("rs2_embedded_frames_count", ptr, 0, res, embedded[ptr])>>
    /\ ret' = Ret("is_empty", c, 0,
                  IF count(res, embedded[ptr]) = 0 THEN "true" ELSE "false", 0)
    /\ errobjs' = error_slot(errobjs, res)
    /\ UNCHANGED <<frameVars, sensorVars, views, vec, panicked>>

\* what can happen at one embedded frame in frames_of_extension: the
\* extraction reports an error or returns null; the extendable-to query
\* reports an error or answers 0; E::try_from fails; all three succeed
SubOutcomes == {"extract_err", "null", "query_err", "not_kind", "conv_err", "ok"}
Extracted(o) == o \notin {"extract_err", "null"}

OtherKind(E) == CHOOSE k \in DataKinds : k # E

\* a faulty test that looks at the answer although the error is set
is_kind_ignores_error(res, val) == val # 0

\* frames_of_extension: NonNull::new(err).is_none() && is_kind != 0
is_kind(res, val) == res = "ok" /\ val # 0

ScanState(cs, found, nk, errs) == [calls |-> cs, frames |-> found, nkind |-> nk, errs |-> errs]

\* frames_of_extension: for i in 0..self.count() { ... }; every successful
\* extraction hands out a new handle
RECURSIVE frames_of_extension_loop(_, _, _, _, _, _)
frames_of_extension_loop(i, n, ptr, E, f, st) ==
    IF i >= n THEN st
    ELSE
    LET h == Cardinality({x \in Handles : st.nkind[x] # "none"}) + 1
        xres == CASE f[i] = "extract_err" -> "err"
                  [] f[i] = "null" -> "null"
                  [] OTHER -> "ok"
        extract == Call("rs2_extract_frame", ptr, i, xres, IF xres = "ok" THEN h ELSE 0)
        nk == IF f[i] = "not_kind" THEN OtherKind(E) ELSE E
        qres == IF f[i] = "query_err" THEN "err" ELSE "ok"
        query == Call("rs2_is_frame_extendable_to", h, KindArg(E), qres,
                      IF nk = E THEN 1 ELSE 0)
        \* a frame whose query failed is still of kind E: converting it would work
        convert == Call("E::try_from", h, i,
                        IF f[i] \in {"ok", "query_err"} THEN "ok" ELSE "err", 0)
    IN
    IF xres # "ok"
    THEN frames_of_extension_loop(i + 1, n, ptr, E, f,
             ScanState(Append(st.calls, extract), st.frames, st.nkind,
                       error_slot(st.errs, xres)))
    ELSE IF h \notin Handles THEN st
    ELSE IF ~is_kind(query.res, query.val)
    THEN frames_of_extension_loop(i + 1, n, ptr, E, f,
             ScanState(st.calls \o <<extract, query>>, st.frames,
                       [st.nkind EXCEPT ![h] = nk], error_slot(st.errs, qres)))
    ELSE frames_of_extension_loop(i + 1, n, ptr, E, f,
             ScanState(st.calls \o <<extract, query, convert>>,
                       IF convert.res = "ok" THEN Append(st.frames, h) ELSE st.frames,
                       [st.nkind EXCEPT ![h] = nk], error_slot(st.errs, qres)))

\* the outcomes at the embedded frames of composite c that the native handle
\* table has room for
ScanRuns(c, cres) ==
    {f \in [0..(count(cres, embedded[frames[c].ptr]) - 1) -> SubOutcomes] :
        Cardinality(Allocated) + Cardinality({i \in DOMAIN f : Extracted(f[i])}) <= MaxHandles}

\* CompositeFrame::frames_of_extension::<E>
FramesOfExtension(c, E, cres, f) ==
    LET ptr == frames[c].ptr
        n == count(cres, embedded[ptr])
        counted == Call("rs2_embedded_frames_count", ptr, 0, cres, embedded[ptr])
        end == frames_of_extension_loop(0, n, ptr, E, f,
                   ScanState(<<counted>>, <<>>, nkind, error_slot(errobjs, cres)))
    IN
    /\ ~panicked
    /\ LiveComposite(c)
    /\ calls' = end.calls
    /\ nkind' = end.nkind
    /\ vec' = end.frames
    /\ errobjs' = end.errs
    /\ ret' = Ret("frames_of_extension", c, KindArg(E),
                  IF end.frames = <<>> THEN "None" ELSE "Some", Len(end.frames))
    /\ UNCHANGED <<embedded, released, frames, iters, itlog, sensorVars, views, panicked>>

\* Drop for CompositeFrame
DropCompositeFrame(c) ==
    /\ LiveComposite(c)
    /\ released' = rs2_release_frame(released, frames[c].ptr)
    /\ frames' = [frames EXCEPT ![c].st = "dropped"]
    /\ calls' = <<Call("rs2_release_frame", frames[c].ptr, 0, "ok", 0)>>
    /\ ret' = Ret("drop", c, 0, "", 0)
    /\ UNCHANGED <<nkind, embedded, iters, itlog, sensorVars, restVars, panicked>>

NextComposite ==
    \/ \E c \in 1..MaxFrames, res \in ProbeOutcomes : Count(c, res)
    \/ \E c \in 1..MaxFrames, res \in ProbeOutcomes : IsEmpty(c, res)
    \/ \E c \in {w \in 1..MaxFrames : LiveComposite(w)}, E \in SubKinds,
          cres \in ProbeOutcomes :
           \E f \in ScanRuns(c, cres) : FramesOfExtension(c, E, cres, f)
    \/ \E c \in 1..MaxFrames : DropCompositeFrame(c)

SpecComposite == InitComposite /\ [][NextComposite]_vars

\* ------------------------------------------------------------- properties
LiveFrames(h) == {w \in DOMAIN frames : frames[w].st = "live" /\ frames[w].ptr = h}
DroppedFrames(h) == {w \in DOMAIN frames : frames[w].st = "dropped" /\ frames[w].ptr = h}
LiveIters(h) == {it \in DOMAIN iters : iters[it].st = "live" /\ iters[it].ptr = h}

\* C2: a Frame wrapper that was constructed from a native handle and has not
\* been taken has made no release call on its handle while it lives and exactly
\* one once it was dropped, whatever queries were made on it in between.
C2_DropReleasesExactlyOnce ==
    \A w \in DOMAIN frames :
        /\ frames[w].st = "live" => released[frames[w].ptr] = 0
        /\ frames[w].st = "dropped" => released[frames[w].ptr] = 1

\* a wrapper was queried and then dropped
C2_Witness ==
    /\ ret.op = "drop"
    /\ ret.arg = 1
    /\ frames[ret.self].st = "dropped"
    /\ released[frames[ret.self].ptr] = 1

C3_OneOwner ==
    /\ \A h \in Allocated :
           /\ released[h] <= 1
           /\ Cardinality(LiveFrames(h)) + Cardinality(LiveIters(h)) = 1 - released[h]
    /\ released[Uninit] = 0

C3_MovedStaysInert ==
    \A w \in DOMAIN frames :
        frames[w].st = "moved" =>
            /\ frames'[w] = frames[w]
            /\ \A h \in Allocated :
                   LiveFrames(h) = {} /\ LiveIters(h) = {} => released'[h] = released[h]

\* C3: every allocated frame handle that has not been released is held by
\* exactly one live wrapper (a Frame or a CompositeFrameIntoIter) and a released
\* one by none; a wrapper that take was called on stays inert for ever and
\* causes no release.
C3_SingleOwnerAndInertSource ==
    []C3_OneOwner /\ [][C3_MovedStaysInert]_vars

\* take has moved a handle to a new owner, of either sort
C3_Witness ==
    /\ \E w \in DOMAIN frames : frames[w].st = "moved"
    /\ \E it \in DOMAIN iters : iters[it].st = "live" /\ released[iters[it].ptr] = 0
    /\ \E w \in DOMAIN frames : frames[w].st = "dropped"

IsExtendQuery(c, h) == c.fn = "rs2_is_frame_extendable_to" /\ c.h = h

\* C4: when the native is-extendable query of try_extend_to answers "no"
\* without error, the call returns the wrapper it was called on, unchanged and
\* live around the same unreleased handle, and makes no other native call: no
\* handle is created and none released.
C4_FailedExtendReturnsOriginal ==
    [][(/\ ret'.op = "try_extend_to"
        /\ calls'[1].res = "ok"
        /\ calls'[1].val = 0)
       => LET w == ret'.self IN
          /\ ret'.val = "OkErr"
          /\ ret'.out = w
          /\ frames' = frames
          /\ frames'[w].st = "live"
          /\ frames'[w].kind = AnyKind
          /\ Len(calls') = 1
          /\ IsExtendQuery(calls'[1], frames'[w].ptr)
          /\ nkind' = nkind
          /\ released' = released
          /\ released'[frames'[w].ptr] = 0
          /\ iters' = iters]_vars

\* a failed extension attempt has just returned the original wrapper
C4_Witness ==
    /\ ret.op = "try_extend_to"
    /\ ret.val = "OkErr"
    /\ frames[ret.self].st = "live"

C5_ExtendStep ==
    (/\ ret'.op = "try_extend_to"
     /\ calls'[1].res = "ok"
     /\ calls'[1].val # 0)
    => LET w == ret'.self
           x == ret'.out
       IN
       /\ ret'.val = "OkOk"
       /\ frames[w].st = "live"
       /\ frames'[w].st = "moved"
       /\ x = Len(frames) + 1
       /\ Len(frames') = x
       /\ frames'[x].ptr = frames[w].ptr
       /\ frames'[x].st = "live"
       /\ KindArg(frames'[x].kind) = ret'.arg
       /\ frames'[x].kind \in NonAnyKinds
       /\ Len(calls') = 1
       /\ IsExtendQuery(calls'[1], frames[w].ptr)
       /\ nkind' = nkind
       /\ released' = released

C5_TypedReleasedOnDrop ==
    \A w \in DOMAIN frames :
        frames[w].kind \in NonAnyKinds /\ frames[w].st # "moved" =>
            released[frames[w].ptr] = IF frames[w].st = "dropped" THEN 1 ELSE 0

\* C5: when the native is-extendable query of try_extend_to answers "yes"
\* without error, the input wrapper is consumed and a new wrapper of the
\* target kind holds the same handle; the query is the only native call of the
\* step, no handle is created or released by it, and the handle is released
\* exactly once, by the drop of the typed wrapper.
C5_ExtendRetagsSameHandle ==
    [][C5_ExtendStep]_vars /\ []C5_TypedReleasedOnDrop

\* a wrapper produced by a successful try_extend_to has been dropped
C5_Witness ==
    \E w \in DOMAIN frames, x \in DOMAIN frames :
        /\ frames[w].st = "moved"
        /\ frames[w].kind = AnyKind
        /\ x > w
        /\ frames[x].kind \in NonAnyKinds
        /\ frames[x].st = "dropped"
        /\ released[frames[x].ptr] = 1

AllOk(items) == \A j \in 1..Len(items) : items[j].ok

\* C6: for an iterator over a composite that embeds N > 0 frames, extraction
\* is attempted at indices 0, 1, ... in order and never beyond N-1; every Ok
\* item is the one of its position; an error item is the last item, nothing is
\* attempted after it; and once the iterator has ended with every extraction
\* successful it has yielded exactly N items.
C6_IterationYieldsInOrder ==
    \A it \in DOMAIN iters :
        LET i == iters[it]
            N == embedded[i.ptr]
            items == itlog[it].items
            tries == itlog[it].tries
        IN
        N > 0 =>
            /\ i.len = N
            /\ \A j \in 1..Len(tries) : tries[j] = j - 1
            /\ Len(tries) <= N
            /\ Len(items) = Len(tries) \/ (panicked /\ Len(items) + 1 = Len(tries))
            /\ \A j \in 1..Len(items) :
                   /\ items[j].idx = j - 1
                   /\ ~items[j].ok =>
                          /\ j = Len(items)
                          /\ Len(tries) = Len(items)
                          /\ i.fused
            /\ (i.fused /\ AllOk(items) /\ Len(items) = Len(tries)) => Len(items) = N
            /\ (~i.fused /\ ~panicked) => Len(items) < N

\* an iterator over the largest composite has yielded all its items
C6_Witness ==
    \E it \in DOMAIN iters :
        /\ iters[it].len = MaxCount
        /\ iters[it].fused
        /\ Len(itlog[it].items) = MaxCount
        /\ AllOk(itlog[it].items)
        /\ ret.op = "next"
        /\ ret.val = "None"

\* an iterator has ended on an error at index 1, with a later index left
C6_WitnessError ==
    \E it \in DOMAIN iters :
        /\ iters[it].len > 2
        /\ Len(itlog[it].items) = 2
        /\ itlog[it].items[1].ok
        /\ ~itlog[it].items[2].ok
        /\ ret.op = "next"
        /\ ret.val = "None"

\* C7: an iterator over a composite that embeds no frame never attempts an
\* extraction and never yields an item: every next() on it returns None and
\* makes no native call.
C7_EmptyCompositeEndsAtOnce ==
    \A it \in DOMAIN iters :
        embedded[iters[it].ptr] = 0 =>
            /\ iters[it].len = 0
            /\ itlog[it].tries = <<>>
            /\ itlog[it].items = <<>>
            /\ (ret.op = "next" /\ ret.self = it) => (ret.val = "None" /\ calls = <<>>)

\* next() was called on an iterator over an empty composite
C7_Witness ==
    \E it \in DOMAIN iters :
        /\ embedded[iters[it].ptr] = 0
        /\ ret.op = "next"
        /\ ret.self = it

\* C8: the handle of a composite that was converted into an iterator is held
\* by no frame wrapper any more and has been released exactly once if the
\* iterator was dropped and not at all if it lives; every sub-frame the iterator
\* yielded has a handle of its own, different from the composite's and from
\* the other items', released exactly once by the drop of the wrapper that
\* holds it and not before.
C8_IteratorOwnsComposite ==
    \A it \in DOMAIN iters :
        LET i == iters[it]
            items == itlog[it].items
        IN
        /\ released[i.ptr] = IF i.st = "dropped" THEN 1 ELSE 0
        /\ LiveFrames(i.ptr) = {} /\ DroppedFrames(i.ptr) = {}
        /\ \A j \in 1..Len(items) :
               items[j].ok =>
                   LET h == items[j].h IN
                   /\ h # i.ptr
                   /\ \A k \in 1..Len(items) : (k # j /\ items[k].ok) => items[k].h # h
                   /\ released[h] = Cardinality(DroppedFrames(h))
                   /\ Cardinality(LiveFrames(h)) = 1 - released[h]

\* the iterator was dropped after yielding two sub-frames, one of which was
\* dropped and the other still lives
C8_Witness ==
    \E it \in DOMAIN iters :
        /\ iters[it].st = "dropped"
        /\ released[iters[it].ptr] = 1
        /\ \E j, k \in 1..Len(itlog[it].items) :
               /\ itlog[it].items[j].ok /\ released[itlog[it].items[j].h] = 0
               /\ itlog[it].items[k].ok /\ released[itlog[it].items[k].h] = 1

\* C9 as claimed: get(index) on a composite whose count query answers N
\* returns None, without an extraction call, for index >= N and Some(frame)
\* for index < N.
C9_GetSomeIffInRange ==
    (ret.op = "get" /\ calls[1].res = "ok" /\ ret.val # "panic") =>
        LET N == embedded[frames[ret.self].ptr] IN
        /\ ret.arg >= N => (ret.val = "None" /\ Len(calls) = 1)
        /\ ret.arg < N => ret.val = "Some"

\* C9 as amended: when the count query of get succeeds with N, get(index)
\* returns None for index >= N and makes no extraction call; for index < N it
\* makes one extraction call at that index and returns Some(frame), a new live
\* Any wrapper of the extracted handle, when that call returns a handle
\* without error, and the error when the call reports one.
C9_GetInRangeExtracts ==
    (ret.op = "get" /\ calls[1].res = "ok") =>
        LET N == calls[1].val IN
        /\ calls[1].fn = "rs2_embedded_frames_count"
        /\ calls[1].h = frames[ret.self].ptr
        /\ N = embedded[frames[ret.self].ptr]
        /\ ret.arg >= N => (ret.val = "None" /\ Len(calls) = 1)
        /\ ret.arg < N =>
               /\ Len(calls) = 2
               /\ calls[2].fn = "rs2_extract_frame"
               /\ calls[2].h = frames[ret.self].ptr
               /\ calls[2].arg = ret.arg
               /\ calls[2].res = "err" => ret.val = "Err"
               /\ calls[2].res = "ok" =>
                      /\ ret.val = "Some"
                      /\ frames[ret.out] = from_ptr(calls[2].val, AnyKind)
                      /\ calls[2].val # frames[ret.self].ptr
        /\ ret.val = "Some" => (ret.arg < N /\ calls[2].res = "ok")

\* get(1) on a composite that embeds more than one frame returned Some
C9_Witness ==
    /\ ret.op = "get"
    /\ ret.arg = 1
    /\ ret.val = "Some"
    /\ embedded[frames[ret.self].ptr] > 1

\* get(0) on an empty composite and get(1) on a composite of one frame
C9_WitnessNone ==
    /\ ret.op = "get"
    /\ ret.val = "None"
    /\ ret.arg = embedded[frames[ret.self].ptr]

CallsTo(fn, h) == {j \in 1..Len(calls) : calls[j].fn = fn /\ calls[j].h = h}

\* C1: the drop of a Sensor deletes its stream-profile list exactly once; it
\* deletes its sensor handle exactly once when the Sensor came from try_create
\* (should_drop) and not at all when it wraps a pointer the caller borrowed.
C1_BorrowedSensorHandleIsKept ==
    (ret.op = "drop_sensor") =>
        LET x == sensors[ret.self] IN
        /\ Cardinality(CallsTo("rs2_delete_stream_profiles_list", x.stream_profiles_ptr)) = 1
        /\ pdel[x.stream_profiles_ptr] = 1
        /\ Cardinality(CallsTo("rs2_delete_sensor", x.sensor_ptr)) =
               IF x.should_drop THEN 1 ELSE 0

Unsupported(c) == c.res = "err" \/ c.val = 0
ReportsReadOnly(c) == c.res = "ok" /\ c.val # 0

\* C10: set_option first probes rs2_supports_option and returns
\* OptionNotSupported, with no further native call, when the probe does not
\* report support; otherwise it probes rs2_is_option_read_only and returns
\* OptionIsReadOnly, with no further native call, when that probe reports
\* read-only; otherwise it calls rs2_set_option once, for the same option, and
\* returns CouldNotSetOption when that call reports an error and Ok when it
\* does not.
C10_SetOptionChecksInOrder ==
    (ret.op = "set_option") =>
        LET ptr == sensors[ret.self].sensor_ptr
            n == Len(calls)
        IN
        /\ n >= 1
        /\ calls[1].fn = "rs2_supports_option"
        /\ \A j \in 1..n : calls[j].h = ptr /\ calls[j].arg = ret.arg
        /\ Unsupported(calls[1]) => (n = 1 /\ ret.val = "OptionNotSupported")
        /\ ~Unsupported(calls[1]) =>
               /\ n >= 2
               /\ calls[2].fn = "rs2_is_option_read_only"
               /\ ReportsReadOnly(calls[2]) => (n = 2 /\ ret.val = "OptionIsReadOnly")
               /\ ~ReportsReadOnly(calls[2]) =>
                      /\ n = 3
                      /\ calls[3].fn = "rs2_set_option"
                      /\ calls[3].res = "err" => ret.val = "CouldNotSetOption"
                      /\ calls[3].res = "ok" => ret.val = "Ok"
        /\ ret.val = "Ok" => (n = 3 /\ calls[3].fn = "rs2_set_option" /\ calls[3].res = "ok")
        /\ CallsTo("rs2_set_option", ptr) # {} =>
               ret.val \in {"Ok", "CouldNotSetOption"}

\* the native write was attempted on a supported, writable option and rejected
C10_Witness ==
    /\ ret.op = "set_option"
    /\ ret.val = "CouldNotSetOption"
    /\ Len(calls) = 3

\* a supported option that is reported read-only was refused without a write
C10_WitnessReadOnly ==
    /\ ret.op = "set_option"
    /\ ret.val = "OptionIsReadOnly"
    /\ Len(calls) = 2

\* ------------------------------------------------------ stream_profiles
\* the list indices at which the last operation made the call fn with outcome res
IndicesOf(fn, res) == {calls[j].arg : j \in {k \in 1..Len(calls) :
                                            calls[k].fn = fn /\ calls[k].res = res}}
FetchFailed == IndicesOf("rs2_get_stream_profile", "err")
ConvertFailed == IndicesOf("StreamProfile::try_from", "err")
Converted == IndicesOf("StreamProfile::try_from", "ok")

\* C11: stream_profiles never reports an error for a failure at one element:
\* when the count query answers N and k elements fail (the fetch reports an
\* error or the conversion fails), it returns a Vec of exactly the N - k
\* profiles that succeeded, in list order, and every element of the list is
\* fetched exactly once whatever happened at the elements before it.
C11_StreamProfilesSkipsFailures ==
    (/\ ret.op = "stream_profiles"
     /\ calls[1].res = "ok"
     /\ ret.val # "panic") =>
        LET N == calls[1].val
            failed == FetchFailed \cup ConvertFailed
        IN
        /\ ret.val = "Vec"
        /\ failed \subseteq 0..(N - 1)
        /\ \A i \in 0..(N - 1) :
               Cardinality({j \in 1..Len(calls) :
                   calls[j].fn = "rs2_get_stream_profile" /\ calls[j].arg = i}) = 1
        /\ Len(vec) = N - Cardinality(failed)
        /\ \A k \in 1..Len(vec) : vec[k] - 1 \in (0..(N - 1)) \ failed
        /\ \A k \in 1..(Len(vec) - 1) : vec[k] < vec[k + 1]

\* an element failed, a later element succeeded and was returned
C11_Witness ==
    /\ ret.op = "stream_profiles"
    /\ ret.val = "Vec"
    /\ \E i \in FetchFailed \cup ConvertFailed : \E k \in 1..Len(vec) : vec[k] - 1 > i

\* a fetch error and a conversion error in one call, nothing returned
C11_WitnessAllFail ==
    /\ ret.op = "stream_profiles"
    /\ ret.val = "Vec"
    /\ FetchFailed # {}
    /\ ConvertFailed # {}
    /\ vec = <<>>

\* ------------------------------------------------------- motion data
\* C12: get_motion_data on a Motion frame whose data buffer is shorter than
\* the 12 bytes of three f32 returns a failure; it never returns a view of
\* three floats that reads past the end of the buffer.
C12_ShortMotionBufferFails ==
    (/\ ret.op = "get_motion_data"
     /\ calls[1].fn = "data_size"
     /\ calls[1].res = "ok"
     /\ calls[1].val < MotionBytes) =>
        /\ ret.val = "Err"
        /\ ~\E v \in views : v.what = "MotionData" /\ v.owner = ret.self

\* ------------------------------------------------------- resolution
\* C18: resolution() on a Video frame returns (width(), height()): the width
\* is the answer of the native width query and the height is the answer of
\* the native height query, made independently of the width query, also for
\* a frame whose width and height differ.
C18_ResolutionIsWidthAndHeight ==
    (ret.op = "resolution" /\ ret.val = "Ok") =>
        /\ Len(calls) = 2
        /\ calls[1].fn = "rs2_get_frame_width"
        /\ ret.arg = calls[1].val
        /\ calls[2].fn = "rs2_get_frame_height"
        /\ ret.out = calls[2].val

\* ------------------------------------------------- sensor construction
ConstructOps == {"try_from", "try_create"}

\* C13: both constructions of a Sensor fetch the stream-profile list before
\* a Sensor value exists.  A Sensor comes into being only in a construction
\* whose fetch succeeded, and holds the list that fetch returned for its
\* sensor pointer; a construction whose fetch reports an error returns
\* CouldNotGenerateStreamProfileList and leaves no Sensor behind.
C13_ListFetchedBeforeSensorExists ==
    [][ret'.op \in ConstructOps =>
          LET fetches == {j \in 1..Len(calls') : calls'[j].fn = "rs2_get_stream_profiles"}
              new == Len(sensors')
          IN
          /\ sensors' # sensors =>
                 /\ sensors' = Append(sensors, sensors'[new])
                 /\ ret'.val = "Ok"
                 /\ ret'.out = new
                 /\ \E j \in fetches :
                        /\ calls'[j].res = "ok"
                        /\ calls'[j].h = sensors'[new].sensor_ptr
                        /\ calls'[j].val = sensors'[new].stream_profiles_ptr
                        /\ calls'[j].val \in DOMAIN pdel'
                        /\ pdel'[calls'[j].val] = 0
          /\ (\E j \in fetches : calls'[j].res = "err") =>
                 /\ ret'.val = "CouldNotGenerateStreamProfileList"
                 /\ sensors' = sensors
          /\ ret'.val = "Ok" => sensors' # sensors
    ]_vars

\* try_create created the native sensor, the fetch of its list failed and no
\* Sensor came into being
C13_Witness ==
    /\ ret.op = "try_create"
    /\ ret.val = "CouldNotGenerateStreamProfileList"
    /\ Len(calls) = 2
    /\ sensors = <<>>

\* a Sensor built by try_from holds the list its fetch returned
C13_WitnessOk ==
    /\ ret.op = "try_from"
    /\ ret.val = "Ok"
    /\ sensors[ret.out].stream_profiles_ptr = calls[1].val

\* ------------------------------------------------------ value queries
ValueOps == {"get_option", "get_option_range", "info"}
SupportProbe(op) == IF op = "info" THEN "rs2_supports_sensor_info" ELSE "rs2_supports_option"
ValueQuery(op) ==
    CASE op = "get_option" -> "rs2_get_option"
      [] op = "get_option_range" -> "rs2_get_option_range"
      [] op = "info" -> "rs2_get_sensor_info"

\* the support check says unsupported: its error is set, or its answer is 0
SaysUnsupported(c) == c.res = "err" \/ c.val = 0

\* C14: get_option, get_option_range and info return None, never an error
\* and never a value, when the support check says unsupported and when the
\* value query reports an error; when the support check fails the value
\* query is not made at all.
C14_ValueQueriesReturnNone ==
    ret.op \in ValueOps =>
        LET n == Len(calls) IN
        /\ n >= 1
        /\ calls[1].fn = SupportProbe(ret.op)
        /\ ret.val \in {"None", "Some"}
        /\ SaysUnsupported(calls[1]) => (n = 1 /\ ret.val = "None")
        /\ ~SaysUnsupported(calls[1]) =>
               /\ n = 2
               /\ calls[2].fn = ValueQuery(ret.op)
               /\ calls[2].res = "err" => ret.val = "None"
               /\ calls[2].res = "ok" => (ret.val = "Some" /\ ret.out = calls[2].val)

\* the option is supported and the value query reports an error: None
C14_Witness ==
    /\ ret.op = "get_option"
    /\ Len(calls) = 2
    /\ calls[2].res = "err"
    /\ ret.val = "None"

\* the support check itself reports an error: None without a value query
C14_WitnessUnsupported ==
    /\ ret.op \in ValueOps
    /\ calls[1].res = "err"
    /\ calls[1].val = 1
    /\ Len(calls) = 1
    /\ ret.val = "None"

\* ------------------------------------------------------ error objects
\* C17: after every foreign call of every operation a non-empty error slot
\* means the foreign error object is freed exactly once before the operation
\* returns: no error object stays allocated after the operation that
\* received it, also in the operations that swallow the failure.
C17_NoErrorObjectStaysAllocated == errobjs = 0

\* ------------------------------------------------------ failing count
CountFailed ==
    /\ calls # <<>>
    /\ calls[1].fn = "rs2_embedded_frames_count"
    /\ calls[1].res = "err"

\* C15: the count of a composite treats a failing native count query as
\* empty: len() yields 0 rather than an error, and a consumer that uses the
\* count as a loop bound, consuming iteration through into_iter included,
\* does not panic because the query failed.
C15_FailingCountIsEmpty ==
    /\ (ret.op = "len" /\ CountFailed) => (ret.val = "Ok" /\ ret.out = 0)
    /\ (ret.op = "into_iter" /\ CountFailed) =>
           /\ ret.val = "Ok"
           /\ ~panicked
           /\ iters[ret.out].len = 0

\* -------------------------------------------------- frames_of_extension
CallsWith(fn, res) == {j \in 1..Len(calls) : calls[j].fn = fn /\ calls[j].res = res}

\* the handles the last operation extracted, found extendable and converted
Matched ==
    {h \in Handles :
        /\ \E j \in CallsWith("rs2_extract_frame", "ok") : calls[j].val = h
        /\ \E j \in CallsWith("rs2_is_frame_extendable_to", "ok") :
               calls[j].h = h /\ calls[j].val # 0
        /\ \E j \in CallsWith("E::try_from", "ok") : calls[j].h = h}

\* the index at which the last operation extracted handle h
ExtractedAt(h) ==
    CHOOSE i \in 0..MaxHandles :
        \E j \in CallsWith("rs2_extract_frame", "ok") : calls[j].val = h /\ calls[j].arg = i

\* C16: frames_of_extension returns Some(list) holding exactly the embedded
\* sub-frames, in index order, whose extraction succeeded, whose
\* extendable-to query succeeded with a true answer and whose conversion
\* succeeded; a failure at one sub-frame skips only that sub-frame; it
\* returns None, never Some of an empty list, when nothing matched.
C16_FramesOfExtensionKeepsMatches ==
    ret.op = "frames_of_extension" =>
        LET N == count(calls[1].res, calls[1].val) IN
        /\ \A i \in 0..(N - 1) :
               Cardinality({j \in 1..Len(calls) :
                   calls[j].fn = "rs2_extract_frame" /\ calls[j].arg = i}) = 1
        /\ Len(vec) = Cardinality(Matched)
        /\ \A k \in 1..Len(vec) : vec[k] \in Matched
        /\ \A k \in 1..(Len(vec) - 1) : ExtractedAt(vec[k]) < ExtractedAt(vec[k + 1])
        /\ ret.val = IF Matched = {} THEN "None" ELSE "Some"
        /\ ret.val = "Some" => vec # <<>>

\* the extraction of a sub-frame failed, a later sub-frame matched and was
\* returned
C16_Witness ==
    /\ ret.op = "frames_of_extension"
    /\ ret.val = "Some"
    /\ \E j \in CallsWith("rs2_extract_frame", "err") :
           \E k \in 1..Len(vec) : ExtractedAt(vec[k]) > calls[j].arg

\* sub-frames were scanned and none matched
C16_WitnessNone ==
    /\ ret.op = "frames_of_extension"
    /\ ret.val = "None"
    /\ Len(calls) > 2

\* ------------------------------------------------------ released is terminal
FrameFns == {"data_size", "rs2_get_frame_data", "rs2_get_frame_width", "rs2_get_frame_height",
             "rs2_is_frame_extendable_to", "rs2_embedded_frames_count", "rs2_extract_frame",
             "rs2_get_frame_sensor", "rs2_release_frame"}

\* C19: Released is terminal for a frame handle: every native call an
\* operation makes on a frame handle finds it unreleased, a release is the
\* last call made on its handle, and no borrowed data view that is still in
\* scope points into a frame whose handle was released.
C19_ReleasedIsTerminal ==
    [][/\ \A j \in 1..Len(calls') :
              calls'[j].fn \in FrameFns =>
                  /\ released[calls'[j].h] = 0
                  /\ calls'[j].fn = "rs2_release_frame" =>
                         \A k \in (j + 1)..Len(calls') : calls'[k].h # calls'[j].h
       /\ \A v \in views' : released'[v.ptr] = 0
    ]_vars

\* a Motion frame was released by its drop; no view is in scope
C19_Witness ==
    /\ ret.op = "drop"
    /\ frames[ret.self].kind = "Motion"
    /\ released[frames[ret.self].ptr] = 1
    /\ views = {}

\* a view is in scope
C19_WitnessView == \E v \in views : v.what = "slice" /\ released[v.ptr] = 0

\* ------------------------------------------------------- Frame::sensor
SensorWrappersOf(h) == {s \in DOMAIN sensors : sensors[s].sensor_ptr = h}
FrameReleasedOnce(w) == released[frames[w].ptr] = 1 /\ DroppedFrames(frames[w].ptr) = {w}

C20_WitnessFrameLast ==
    /\ ret.op = "drop"
    /\ FrameReleasedOnce(ret.self)
    /\ \E s \in DOMAIN sensors :
           sensors[s].st = "dropped" /\ sdel[sensors[s].sensor_ptr] = 1

\* ------------------------------------------------ iteration is finite
\* the iterator has nothing left to yield: it has yielded an error item, or
\* as many items as the composite embeds
Exhausted(log, ptr) ==
    \/ \E j \in 1..Len(log.items) : ~log.items[j].ok
    \/ Len(log.items) >= embedded[ptr]

\* C21: the consuming iterator is finite and not restartable: it yields at
\* most count() items in total; next() returns None only when an error item
\* or count() items were yielded before; and from then on every next()
\* returns None, makes no native call and yields nothing.
C21_IterationIsFinite ==
    [][/\ \A it \in DOMAIN iters' :
              Len(itlog'[it].items) <= embedded'[iters'[it].ptr]
       /\ ret'.op = "next" =>
              LET it == ret'.self IN
              /\ ret'.val = "None" => Exhausted(itlog[it], iters[it].ptr)
              /\ Exhausted(itlog[it], iters[it].ptr) =>
                     /\ ret'.val = "None"
                     /\ calls' = <<>>
                     /\ itlog' = itlog
                     /\ frames' = frames
    ]_vars

\* next() was called again after the first extraction had failed: None,
\* without a native call
C21_Witness ==
    \E it \in DOMAIN iters :
        /\ ret.op = "next"
        /\ ret.self = it
        /\ ret.val = "None"
        /\ calls = <<>>
        /\ embedded[iters[it].ptr] > 1
        /\ Len(itlog[it].items) = 1
        /\ ~itlog[it].items[1].ok

\* ------------------------------------------------ get does not consume
DroppedIters(h) == {it \in DOMAIN iters : iters[it].st = "dropped" /\ iters[it].ptr = h}

\* every allocated handle has one owner that lives, or was released exactly
\* once by the drop of the one owner it had
EachHandleOwnedOnce ==
    \A h \in Allocated :
        /\ released[h] = Cardinality(DroppedFrames(h)) + Cardinality(DroppedIters(h))
        /\ Cardinality(LiveFrames(h)) + Cardinality(LiveIters(h)) = 1 - released[h]

\* a get leaves the composite wrapper, its handle and its count as they were;
\* a successful get adds one Any frame on a handle that was not allocated
\* before; any other get adds nothing
GetStep ==
    ret'.op = "get" =>
        LET w == ret'.self
            p == frames[w].ptr
        IN
        /\ frames'[w] = frames[w]
        /\ frames[w].st = "live"
        /\ embedded'[p] = embedded[p]
        /\ nkind'[p] = nkind[p]
        /\ released' = released
        /\ \A y \in DOMAIN frames : frames'[y] = frames[y]
        /\ ret'.val = "Some" =>
               LET x == ret'.out IN
               /\ DOMAIN frames' = DOMAIN frames \cup {x}
               /\ x \notin DOMAIN frames
               /\ frames'[x].kind = AnyKind
               /\ frames'[x].st = "live"
               /\ frames'[x].ptr # p
               /\ nkind[frames'[x].ptr] = "none"
               /\ nkind'[frames'[x].ptr] # "none"
        /\ ret'.val # "Some" => (frames' = frames /\ nkind' = nkind)

\* C22: get(index) does not consume or change the composite: after a get the
\* composite's wrapper, handle and count are what they were, so the same
\* index can be extracted again; each successful get produces a new Any
\* frame on a handle of its own, released exactly once by the drop of its
\* own wrapper, while the composite's handle is released exactly once by the
\* drop of the composite.
C22_GetDoesNotConsume == []EachHandleOwnedOnce /\ [][GetStep]_vars

\* index 0 of a composite with one embedded frame was extracted twice; one
\* of the two frames was dropped, and so was the composite
C22_Witness ==
    /\ iters = <<>>
    /\ embedded[RootHandle] = 1
    /\ released[RootHandle] = 1
    /\ \E x, y \in DOMAIN frames :
           /\ frames[x].ptr \notin {RootHandle, Uninit}
           /\ frames[y].ptr \notin {RootHandle, Uninit, frames[x].ptr}
           /\ released[frames[x].ptr] = 1
           /\ released[frames[y].ptr] = 0

\* ------------------------------------- frames_of_extension and ownership
\* the handles the last operation extracted
ExtractedHandles == {calls[j].val : j \in CallsWith("rs2_extract_frame", "ok")}

\* C23: frames_of_extension releases or hands over every sub-frame handle it
\* extracts: each handle rs2_extract_frame returned is in the returned list
\* or was released before the call returned.
C23_ExtractedHandlesOwnedOrReleased ==
    ret.op = "frames_of_extension" =>
        \A h \in ExtractedHandles :
            \/ \E k \in 1..Len(vec) : vec[k] = h
            \/ released[h] = 1

\* ------------------------------------------------- a failed try_create
\* C24: when try_create created a native sensor and the fetch of the stream
\* profile list reports an error, the created sensor handle is deleted
\* before the error is returned: no created sensor handle is left that was
\* not deleted.
C24_FailedTryCreateLeavesNoSensor ==
    (ret.op = "try_create" /\ ret.val = "CouldNotGenerateStreamProfileList") =>
        /\ CallsTo("rs2_delete_sensor", ret.arg) # {}
        /\ sdel[ret.arg] = 1

\* ------------------------------------------- a query error in a consumer
\* the step is a try_extend_to or a try_into_iter whose query reported an
\* error
ConsumerQueryFailed ==
    /\ ret'.op \in {"try_extend_to", "try_into_iter"}
    /\ calls'[1].fn \in {"rs2_is_frame_extendable_to", "rs2_embedded_frames_count"}
    /\ calls'[1].res = "err"

\* C25: when the is-extendable query of try_extend_to, or the count query of
\* try_into_iter, reports an error, the call returns that error, creates no
\* new wrapper and no iterator, and the handle of the input frame is
\* released exactly once: by one release call of this step, after which no
\* wrapper and no iterator owns it.
C25_QueryErrorReleasesInput ==
    [][ConsumerQueryFailed =>
          LET w == ret'.self
              ptr == frames[w].ptr
          IN
          /\ ret'.val = "Err"
          /\ DOMAIN frames' = DOMAIN frames
          /\ \A y \in DOMAIN frames \ {w} : frames'[y] = frames[y]
          /\ iters' = iters
          /\ frames'[w].st = "dropped"
          /\ released[ptr] = 0
          /\ released'[ptr] = 1
          /\ \A h \in Handles \ {ptr} : released'[h] = released[h]
          /\ Cardinality({j \in 1..Len(calls') :
                 calls'[j].fn = "rs2_release_frame" /\ calls'[j].h = ptr}) = 1
          /\ \A y \in DOMAIN frames' :
                 (frames'[y].ptr = ptr /\ y # w) => frames'[y].st # "live"
          /\ \A it \in DOMAIN iters' : iters'[it].ptr # ptr
    ]_vars

\* the is-extendable query of try_extend_to failed on a frame that was
\* extracted from a composite
C25_Witness ==
    /\ ret.op = "try_extend_to"
    /\ ret.val = "Err"
    /\ calls[1].res = "err"
    /\ frames[ret.self].ptr # RootHandle
    /\ released[frames[ret.self].ptr] = 1

\* the count query of try_into_iter failed
C25_WitnessIter ==
    /\ ret.op = "try_into_iter"
    /\ ret.val = "Err"
    /\ calls[1].res = "err"
    /\ released[frames[ret.self].ptr] = 1
    /\ iters = <<>>

\* ------------------------------------------ when set_option writes
WriteCalls == {j \in 1..Len(calls) : calls[j].fn = "rs2_set_option"}

\* C26: set_option invokes the native write exactly when the support probe
\* returned true without error and the read-only probe did not report
\* read-only: a support probe that reports an error counts as unsupported
\* (OptionNotSupported, no write), whatever value it returned, and a
\* read-only probe that reports an error counts as writable, whatever value
\* it returned, so the write is attempted.
C26_WriteIffSupportedAndWritable ==
    (ret.op = "set_option") =>
        LET supported == calls[1].fn = "rs2_supports_option"
                         /\ calls[1].res = "ok" /\ calls[1].val # 0
            probed == Len(calls) >= 2 /\ calls[2].fn = "rs2_is_option_read_only"
            read_only == probed /\ calls[2].res = "ok" /\ calls[2].val # 0
        IN
        /\ (WriteCalls # {}) <=> (supported /\ probed /\ ~read_only)
        /\ Cardinality(WriteCalls) <= 1
        /\ calls[1].res = "err" =>
               (ret.val = "OptionNotSupported" /\ WriteCalls = {} /\ Len(calls) = 1)
        /\ (supported /\ probed /\ calls[2].res = "err") =>
               (WriteCalls = {3} /\ ret.val \in {"Ok", "CouldNotSetOption"})

\* the read-only probe reported an error next to a nonzero value and the
\* write was made
C26_Witness ==
    /\ ret.op = "set_option"
    /\ Len(calls) = 3
    /\ calls[2].res = "err"
    /\ calls[2].val # 0
    /\ WriteCalls = {3}
    /\ ret.val = "Ok"

\* the support probe reported an error next to a nonzero value and nothing
\* was written
C26_WitnessUnsupported ==
    /\ ret.op = "set_option"
    /\ calls[1].res = "err"
    /\ calls[1].val # 0
    /\ WriteCalls = {}
====
